---- MODULE Spec2Model ----
(***************************************************************************)
(* A model of the terminal arcade game of main.py: the entities            *)
(* (Coordinate, Bullet, Creature, Enemy, Player), the per-frame loop of    *)
(* Game.main and the world update of Player.update_background_attributes.  *)
(* Positions are (y, x) = (row, column), as in the source.                 *)
(***************************************************************************)
EXTENDS Integers, Sequences, FiniteSets

(* ---------------- bounds of the model ---------------- *)

\* curses.LINES: rows of the terminal
LINES == 2

\* curses.COLS: columns of the terminal
COLS == 7

\* the game is followed frame by frame until the roster of enemies has this
\* many entries
MaxEnemies == 4

\* under the scheduling of SpecLive the game is followed until the roster has
\* this many entries
LiveMaxEnemies == 2

(* ---------------- program constants ---------------- *)

\* The glyph palettes. Every glyph of BULLETS and ENEMIES is one character
\* long and the program only ever reads len(icon), so one representative of
\* each palette is kept. A glyph is a sequence of characters.
BULLETS == { <<".">> }

ENEMIES == { <<"<">> }

PLAYER_ICON == <<" ">>

\* default speed of a Bullet
BulletSpeed == 1

\* leftmost column of a freshly spawned enemy
SpawnMinX == 5

\* a fresh enemy is spawned at most at column COLS - SpawnRightMargin
SpawnRightMargin == 2

\* random.random() in hundredths. First draw of move_random: both sides of
\* its threshold 0.35. Second draw: one value in each of the four intervals
\* cut by 0.25, 0.5 and 0.70, the thresholds themselves included.
Draws1 == {35, 36}

Draws2 == {25, 50, 70, 71}

\* the draws of one call of move_random: the second draw is made only when
\* the first is at most 0.35 (0 stands for the draw that is not made)
DrawPairs ==
    ({r \in Draws1 : r > 35} \X {0}) \cup ({r \in Draws1 : r <= 35} \X Draws2)

\* the keys screen.getch() can return: -1 is "no key", "q" a key that is not bound
Keys == {"w", "s", "a", "d", " ", "KEY_UP", "KEY_DOWN", "KEY_LEFT", "KEY_RIGHT", "q", "-1"}

VARIABLES
    player,     \* the Player: [y, x, icon, alive]
    shots,      \* player.shots: sequence of Bullets [y, x, icon, fired, speed]
    enemies,    \* the list enemies of Game.main: sequence of [y, x, icon, alive]
    kills,      \* Game.kills
    launched,   \* TRUE while the render of Bullet.fire is on the screen (not cleared)
    misfire,    \* TRUE when parse_keys has just returned from a Player.fire that
                \* found no idle bullet (the else branch of its for loop)
    pc          \* position of Game.main in its loop

vars == <<player, shots, enemies, kills, launched, misfire, pc>>

(* ---------------- Coordinate ---------------- *)

Min(a, b) == IF a < b THEN a ELSE b

Max(a, b) == IF a > b THEN a ELSE b

bind(coord, lower_bound, upper_bound) == Min(Max(coord, lower_bound), upper_bound)

bind_x_to_screen(self, x) ==
    LET offset == IF self.y = LINES - 1 THEN 1 ELSE 0
    IN  bind(x, 0, COLS - (Len(self.icon) + offset))

bind_y_to_screen(self, y) == bind(y, 0, LINES - 1)

move(self, axis, distance) ==
    IF axis = "X"
    THEN [self EXCEPT !.x = bind_x_to_screen(self, self.x + distance)]
    ELSE [self EXCEPT !.y = bind_y_to_screen(self, self.y + distance)]

move_left(self, distance) == move(self, "X", (-1) * distance)

move_right(self, distance) == move(self, "X", distance)

move_up(self, distance) == move(self, "Y", (-1) * distance)

move_down(self, distance) == move(self, "Y", distance)

(* ---------------- Bullet ---------------- *)

Bullet(icon) == [y |-> 0, x |-> 0, icon |-> icon, fired |-> FALSE, speed |-> BulletSpeed]

BulletFire(self, p) == [self EXCEPT !.y = p.y, !.x = p.x, !.fired = TRUE]

\* stop with a fault, the flag is flipped and not cleared: C9 fails on it
stop_Toggle(self) == [self EXCEPT !.fired = ~self.fired, !.x = 0, !.y = 0]

\* stop with a fault, the bullet is left on its cell: C17 fails on it
stop_InPlace(self) == [self EXCEPT !.fired = FALSE]

\* stop with a fault, the flag is not cleared: C14 fails on it
stop_KeepFlag(self) == [self EXCEPT !.x = 0, !.y = 0]

stop(self) == [self EXCEPT !.fired = FALSE, !.x = 0, !.y = 0]

\* keep_shooting with a fault, the test of the last row is left out: C13
\* fails on it
keep_shooting_NoLastRow(self) ==
    IF self.x >= COLS - Len(self.icon)
    THEN stop(self)
    ELSE move_right(self, self.speed)

keep_shooting(self) ==
    IF \/ self.x >= COLS - Len(self.icon)
       \/ (self.y = LINES - 1 /\ self.x >= COLS - (Len(self.icon) + 1))
    THEN stop(self)
    ELSE move_right(self, self.speed)

(* ---------------- Creature, Enemy ---------------- *)

die(self) == [self EXCEPT !.alive = FALSE]

Enemy(y, x, icon) == [y |-> y, x |-> x, icon |-> icon, alive |-> TRUE]

\* move_random with a fault, the two horizontal moves are exchanged: C11 as
\* amended fails on it
move_random_LeftRight(self, r1, r2) ==
    IF r1 > 35 THEN self
    ELSE IF r2 > 50
         THEN IF r2 > 70 THEN move_right(self, 1) ELSE move_left(self, 1)
         ELSE IF r2 > 25 THEN move_up(self, 1) ELSE move_down(self, 1)

\* r1, r2: the two values of random.random(), in hundredths
move_random(self, r1, r2) ==
    IF r1 > 35 THEN self
    ELSE IF r2 > 50
         THEN IF r2 > 70 THEN move_left(self, 1) ELSE move_right(self, 1)
         ELSE IF r2 > 25 THEN move_up(self, 1) ELSE move_down(self, 1)

(* ---------------- Player ---------------- *)

Player(y, x) == [y |-> y, x |-> x, icon |-> PLAYER_ICON, alive |-> TRUE]

\* index of the first bullet of the pool that is not fired, 0 when there is none
FirstIdle(sh) ==
    IF \E i \in 1..Len(sh) : ~sh[i].fired
    THEN CHOOSE i \in 1..Len(sh) : ~sh[i].fired /\ \A j \in 1..(i - 1) : sh[j].fired
    ELSE 0

\* Player.fire with a fault, with no idle bullet a new bullet is made and
\* fired: C8 fails on it
PlayerFire_Grow(p, sh) ==
    LET i == FirstIdle(sh)
    IN  IF i = 0
        THEN Append(sh, BulletFire(Bullet(CHOOSE b \in BULLETS : TRUE), p))
        ELSE [sh EXCEPT ![i] = BulletFire(sh[i], p)]

\* Player.fire with a fault, the last idle bullet of the pool is fired: C12
\* fails on it
PlayerFire_LastIdle(p, sh) ==
    LET idle == {i \in 1..Len(sh) : ~sh[i].fired}
        i == IF idle = {} THEN 0 ELSE CHOOSE k \in idle : \A l \in idle : l <= k
    IN  IF i = 0 THEN sh ELSE [sh EXCEPT ![i] = BulletFire(sh[i], p)]

\* Player.fire: the pool after the call
PlayerFire(p, sh) ==
    LET i == FirstIdle(sh)
    IN  IF i = 0 THEN sh ELSE [sh EXCEPT ![i] = BulletFire(sh[i], p)]

\* Player.parse_keys: the player and the pool after the call; misfire tells
\* that Player.fire was called and found no idle bullet
parse_keys(p, sh, key) ==
    LET p1 == IF key \in {"w", "KEY_UP"} THEN move_up(p, 1) ELSE p
        p2 == IF key \in {"s", "KEY_DOWN"} THEN move_down(p1, 1) ELSE p1
        p3 == IF key \in {"a", "KEY_LEFT"} THEN move_left(p2, 1) ELSE p2
        p4 == IF key \in {"d", "KEY_RIGHT"} THEN move_right(p3, 1) ELSE p3
    IN  [player |-> p4,
         shots |-> IF key = " " THEN PlayerFire(p4, sh) ELSE sh,
         misfire |-> (key = " " /\ FirstIdle(sh) = 0)]

(* ---------------- Player.update_background_attributes ---------------- *)

NumAlive(en) == Cardinality({i \in 1..Len(en) : en[i].alive})

SamePlace(a, b) == a.y = b.y /\ a.x = b.x

\* index of the first bullet of the pool at the place of e, 0 when there is none
\* (the test of the source is on the position alone)
FirstBulletAt(sh, e) ==
    IF \E k \in 1..Len(sh) : SamePlace(sh[k], e)
    THEN CHOOSE k \in 1..Len(sh) :
            SamePlace(sh[k], e) /\ \A j \in 1..(k - 1) : ~SamePlace(sh[j], e)
    ELSE 0

\* the loop body with a fault, the test against the player compares the rows
\* only: C2 fails on it
ScanOne_RowOnly(s, i, r) ==
    LET e == move_random(s.enemies[i], r[1], r[2])
        k == FirstBulletAt(s.shots, e)
    IN  IF e.y = s.player.y
        THEN [s EXCEPT !.enemies[i] = e, !.player = die(s.player), !.broke = TRUE]
        ELSE IF k # 0
             THEN [s EXCEPT !.enemies[i] = die(e),
                            !.shots = Append([s.shots EXCEPT ![k] = stop(s.shots[k])],
                                             Bullet(CHOOSE b \in BULLETS : TRUE))]
             ELSE [s EXCEPT !.enemies[i] = e]

\* the loop body with a fault, the bullets are tested before the player: C5
\* fails on it
ScanOne_BulletsFirst(s, i, r) ==
    LET e == move_random(s.enemies[i], r[1], r[2])
        k == FirstBulletAt(s.shots, e)
    IN  IF k # 0
        THEN [s EXCEPT !.enemies[i] = die(e),
                       !.shots = Append([s.shots EXCEPT ![k] = stop(s.shots[k])],
                                        Bullet(CHOOSE b \in BULLETS : TRUE))]
        ELSE IF SamePlace(e, s.player)
             THEN [s EXCEPT !.enemies[i] = e, !.player = die(s.player), !.broke = TRUE]
             ELSE [s EXCEPT !.enemies[i] = e]

\* the loop body with a fault, the break after a hit leaves the loop over the
\* enemies as well: C6 fails on it
ScanOne_BreakOnKill(s, i, r) ==
    LET e == move_random(s.enemies[i], r[1], r[2])
        k == FirstBulletAt(s.shots, e)
    IN  IF SamePlace(e, s.player)
        THEN [s EXCEPT !.enemies[i] = e, !.player = die(s.player), !.broke = TRUE]
        ELSE IF k # 0
             THEN [s EXCEPT !.enemies[i] = die(e),
                            !.shots = Append([s.shots EXCEPT ![k] = stop(s.shots[k])],
                                             Bullet(CHOOSE b \in BULLETS : TRUE)),
                            !.broke = TRUE]
             ELSE [s EXCEPT !.enemies[i] = e]

\* the loop body with a fault, a hit stops the bullet and appends none: C18
\* fails on it
ScanOne_StopOnly(s, i, r) ==
    LET e == move_random(s.enemies[i], r[1], r[2])
        k == FirstBulletAt(s.shots, e)
    IN  IF SamePlace(e, s.player)
        THEN [s EXCEPT !.enemies[i] = e, !.player = die(s.player), !.broke = TRUE]
        ELSE IF k # 0
             THEN [s EXCEPT !.enemies[i] = die(e),
                            !.shots = [s.shots EXCEPT ![k] = stop(s.shots[k])]]
             ELSE [s EXCEPT !.enemies[i] = e]

\* the loop body with a fault, a bullet is appended only when no bullet of
\* the pool is idle: C10 as amended fails on it
ScanOne_AppendIfExhausted(s, i, r) ==
    LET e == move_random(s.enemies[i], r[1], r[2])
        k == FirstBulletAt(s.shots, e)
        stopped == [s.shots EXCEPT ![k] = stop(s.shots[k])]
    IN  IF SamePlace(e, s.player)
        THEN [s EXCEPT !.enemies[i] = e, !.player = die(s.player), !.broke = TRUE]
        ELSE IF k # 0
             THEN [s EXCEPT !.enemies[i] = die(e),
                            !.shots = IF \A j \in 1..Len(s.shots) : s.shots[j].fired
                                      THEN Append(stopped, Bullet(CHOOSE b \in BULLETS : TRUE))
                                      ELSE stopped]
             ELSE [s EXCEPT !.enemies[i] = e]

\* the body of "for e in enemies" for the live enemy i, with the draws r of
\* its move_random; s = [player, enemies, shots, broke]
ScanOne(s, i, r) ==
    LET e == move_random(s.enemies[i], r[1], r[2])
        k == FirstBulletAt(s.shots, e)
    IN  IF SamePlace(e, s.player)
        THEN [s EXCEPT !.enemies[i] = e, !.player = die(s.player), !.broke = TRUE]
        ELSE IF k # 0
             THEN [s EXCEPT !.enemies[i] = die(e),
                            !.shots = Append([s.shots EXCEPT ![k] = stop(s.shots[k])],
                                             Bullet(CHOOSE b \in BULLETS : TRUE))]
             ELSE [s EXCEPT !.enemies[i] = e]

\* the loop with a fault, "if e.alive" guards the move alone: a dead enemy
\* stays where it is and is tested against the player and the bullets all
\* the same. C15 fails on it
RECURSIVE Scan_TestDead(_, _, _)
Scan_TestDead(s, i, rs) ==
    IF i > Len(s.enemies) \/ s.broke THEN s
    ELSE IF ~s.enemies[i].alive
         THEN Scan_TestDead(ScanOne(s, i, <<36, 0>>), i + 1, rs)
         ELSE Scan_TestDead(ScanOne(s, i, Head(rs)), i + 1, Tail(rs))

\* the loop "for e in enemies" from index i on; rs holds one pair of draws for
\* each live enemy still to come
RECURSIVE Scan(_, _, _)
Scan(s, i, rs) ==
    IF i > Len(s.enemies) \/ s.broke THEN s
    ELSE IF ~s.enemies[i].alive THEN Scan(s, i + 1, rs)
    ELSE Scan(ScanOne(s, i, Head(rs)), i + 1, Tail(rs))

\* the cells random.randint(0, LINES - 1), random.randint(5, COLS - 2) can give
SpawnCells == (0..(LINES - 1)) \X (SpawnMinX..(COLS - SpawnRightMargin))

\* the respawn block with a fault, twice the length of the list is appended
\* (two enemies on each new cell): C19 fails on it
Respawn_Twice(en, sp) ==
    IF ~\E i \in 1..Len(en) : en[i].alive
    THEN en \o [i \in 1..(2 * Len(en)) |->
                   Enemy(sp[(i + 1) \div 2][1], sp[(i + 1) \div 2][2],
                         CHOOSE g \in ENEMIES : TRUE)]
    ELSE en

\* the respawn block with a fault, one enemy is appended: C4 fails on it
Respawn_PlusOne(en, sp) ==
    IF ~\E i \in 1..Len(en) : en[i].alive
    THEN Append(en, Enemy(sp[1][1], sp[1][2], CHOOSE g \in ENEMIES : TRUE))
    ELSE en

\* the respawn block: sp gives the cell of each new enemy
Respawn(en, sp) ==
    IF ~\E i \in 1..Len(en) : en[i].alive
    THEN en \o [i \in 1..Len(en) |-> Enemy(sp[i][1], sp[i][2], CHOOSE g \in ENEMIES : TRUE)]
    ELSE en

\* "for bullet in self.shots: if bullet.fired: bullet.keep_shooting()"
AdvanceShots(sh) ==
    [k \in 1..Len(sh) |-> IF sh[k].fired THEN keep_shooting(sh[k]) ELSE sh[k]]

\* number of enemies the respawn block appends to en
SpawnCount(en) == IF \E i \in 1..Len(en) : en[i].alive THEN 0 ELSE Len(en)

(* ---------------- Game.main ---------------- *)

\* the count with a fault, the live enemies are counted: C3 fails on it
CountDead_Alive(en) == Cardinality({i \in 1..Len(en) : en[i].alive})

\* len([1 for e in enemies if not e.alive])
CountDead(en) == Cardinality({i \in 1..Len(en) : ~en[i].alive})

Init ==
    /\ player = Player(0, 0)
    /\ shots = << Bullet(CHOOSE b \in BULLETS : TRUE) >>
    /\ enemies = << Enemy(LINES - 1, COLS \div 2, CHOOSE g \in ENEMIES : TRUE) >>
    /\ kills = 0
    /\ launched = FALSE
    /\ misfire = FALSE
    /\ pc = "getch"

\* key = screen.getch(); player.parse_keys(key)
GetchParseKeys ==
    /\ pc = "getch"
    /\ Len(enemies) < MaxEnemies
    /\ \E key \in Keys :
         LET r == parse_keys(player, shots, key)
         IN  /\ player' = r.player
             /\ shots' = r.shots
             /\ launched' = (launched \/ r.shots # shots)
             /\ misfire' = r.misfire
    /\ pc' = "clear"
    /\ UNCHANGED <<enemies, kills>>

\* screen.clear()
Clear ==
    /\ pc = "clear"
    /\ launched' = FALSE
    /\ misfire' = FALSE
    /\ pc' = "update"
    /\ UNCHANGED <<player, shots, enemies, kills>>

\* player.update_background_attributes(enemies)
Update ==
    /\ pc = "update"
    /\ \E rs \in [1..NumAlive(enemies) -> DrawPairs] :
         LET s == Scan([player |-> player, enemies |-> enemies, shots |-> shots,
                        broke |-> FALSE], 1, rs)
         IN  \E sp \in [1..SpawnCount(s.enemies) -> SpawnCells] :
                  /\ enemies' = Respawn(s.enemies, sp)
                  /\ shots' = AdvanceShots(s.shots)
                  /\ player' = s.player
    /\ pc' = "score"
    /\ UNCHANGED <<kills, launched, misfire>>

\* self.kills = ...; the score and the marker are drawn; screen.refresh();
\* sleep; the test of "while player.alive"
Score ==
    /\ pc = "score"
    /\ kills' = CountDead(enemies)
    /\ pc' = IF player.alive THEN "getch" ELSE "over"
    /\ UNCHANGED <<player, shots, enemies, launched, misfire>>

Next == GetchParseKeys \/ Clear \/ Update \/ Score

Spec == Init /\ [][Next]_vars

\* The loop of Game.main never waits: getch does not block (nodelay), the
\* sleep is finite. While a step of the loop is possible, one is taken.
\* SpecLive follows the loop under this scheduling while the first roster
\* lasts.
GetchLive == Len(enemies) < LiveMaxEnemies /\ GetchParseKeys

NextLive == GetchLive \/ Clear \/ Update \/ Score

SpecLive == Init /\ [][NextLive]_vars /\ WF_vars(NextLive)

(* ---------------- one update, from any state of the second wave -------- *)

\* SpecFrame applies player.update_background_attributes and the rest of the
\* frame once, to the states the game can be in when the update starts with
\* the first, second or third roster (1, 2 or 4 enemies).

Abs(n) == IF n < 0 THEN -n ELSE n

Cells == (0..(LINES - 1)) \X (0..(COLS - 1))

\* the cell where the enemies that are already dead have died
DeadCell == <<0, SpawnMinX>>

LiveEnemies == {Enemy(c[1], c[2], CHOOSE g \in ENEMIES : TRUE) : c \in Cells}

DeadEnemy == die(Enemy(DeadCell[1], DeadCell[2], CHOOSE g \in ENEMIES : TRUE))

\* the rosters: the older waves are dead, the newest has a live enemy
Rosters ==
    { <<a>> : a \in LiveEnemies }
    \cup { <<DeadEnemy, a>> : a \in LiveEnemies }
    \cup { <<DeadEnemy, DeadEnemy, a, b>> : a \in LiveEnemies, b \in LiveEnemies }
    \cup { <<DeadEnemy, DeadEnemy, a, DeadEnemy>> : a \in LiveEnemies }
    \cup { <<DeadEnemy, DeadEnemy, DeadEnemy, b>> : b \in LiveEnemies }

\* the pools: one bullet and one more for each dead enemy; the first bullet is
\* idle or in flight, the others are idle
Pools(en) ==
    LET idle == Bullet(CHOOSE b \in BULLETS : TRUE)
        first == {idle} \cup
                 { [idle EXCEPT !.y = c[1], !.x = c[2], !.fired = TRUE] : c \in Cells }
    IN  { <<b>> \o [k \in 1..CountDead(en) |-> idle] : b \in first }

Dist(a, b) == Abs(a[1] - b[1]) + Abs(a[2] - b[2])

\* the cells the player reaches from cell q with one key
Steps(q) ==
    LET p == Player(q[1], q[2])
    IN  { <<r.y, r.x>> : r \in {p, move_up(p, 1), move_down(p, 1),
                                 move_left(p, 1), move_right(p, 1)} }

\* the least number of keys that take the player from cell a to cell b: the
\* bottom-right cell is entered from above only
Walk(a, b) ==
    IF b = <<LINES - 1, COLS - 1>> /\ a # b
    THEN Dist(a, <<LINES - 2, COLS - 1>>) + 1
    ELSE Dist(a, b)

\* The state has a past. An idle bullet lies on the origin, where no enemy
\* survives a scan unless the bullet has only just stopped. A bullet in flight
\* on cell c was launched in this frame from the player's cell, or k >= 1
\* frames ago from column c[2] - k of its row: then keep_shooting has advanced
\* it from the column before c, the player has made at most k - 1 moves to the
\* cell q of the previous frame and at most one since. In the scan of the
\* previous frame no live enemy was on the player's cell or on a bullet's.
HasPast(p, en, sh) ==
    LET live == { <<en[i].y, en[i].x>> : i \in {j \in 1..Len(en) : en[j].alive} }
        b == sh[1]
        c == <<b.y, b.x>>
        here == <<p.y, p.x>>
        originFree == Len(sh) >= 2 => <<0, 0>> \notin live
    IN  IF ~b.fired
        THEN originFree /\ \E q \in Cells : here \in Steps(q) /\ q \notin live
        ELSE \/ c = here /\ here \notin live /\ <<0, 0>> \notin live
             \/ \E k \in 1..c[2], q \in Cells :
                    /\ keep_shooting([b EXCEPT !.x = c[2] - 1]).fired
                    /\ here \in Steps(q)
                    /\ Walk(<<c[1], c[2] - k>>, q) <= k - 1
                    /\ q \notin live
                    /\ <<c[1], c[2] - 1>> \notin live
                    /\ originFree

InitFrame ==
    /\ player \in {Player(c[1], c[2]) : c \in Cells}
    /\ enemies \in Rosters
    /\ shots \in {sh \in Pools(enemies) : HasPast(player, enemies, sh)}
    /\ kills = CountDead(enemies)
    /\ launched = FALSE
    /\ misfire = FALSE
    /\ pc = "update"

NextFrame == Update \/ Score

SpecFrame == InitFrame /\ [][NextFrame]_vars

(* ---------------- the claims ---------------- *)

\* the bound of the specification on one entity: its row is on the screen and
\* its column leaves the glyph on the screen, one cell less on the last row
InBounds(e) ==
    /\ 0 <= e.y /\ e.y <= LINES - 1
    /\ 0 <= e.x
    /\ e.x <= COLS - Len(e.icon) - (IF e.y = LINES - 1 THEN 1 ELSE 0)

\* C1 (bound invariant): in every reachable state the player, every bullet and
\* every enemy is within the bounds of InBounds, so that no entity is on the
\* reserved bottom-right cell (LINES - 1, COLS - 1).
C1_BoundInvariant ==
    /\ InBounds(player)
    /\ \A k \in 1..Len(shots) : InBounds(shots[k])
    /\ \A i \in 1..Len(enemies) : InBounds(enemies[i])

\* C2 as stated (terminal transition): a frame never ends with the player
\* alive while a live enemy is at the player's position.
C2_DeathOnAnyOverlap ==
    pc = "getch" =>
        ~\E i \in 1..Len(enemies) : enemies[i].alive /\ SamePlace(enemies[i], player)

\* C2 as amended (terminal transition): in the update of a frame the player
\* dies exactly when an enemy that was in the list at the start of the update
\* is alive at the player's position after the scan (it has just moved there,
\* or has stood still there); a dead player is found dead by the loop test of
\* that same frame, the loop is left only then, and nothing runs after it.
C2_Terminal ==
    [][ /\ pc = "update" =>
              (~player'.alive <=>
                  \E i \in 1..Len(enemies) :
                      enemies'[i].alive /\ SamePlace(enemies'[i], player'))
        /\ pc = "score" => (pc' = "over" <=> ~player.alive)
        /\ pc' = "over" => pc = "score"
        /\ pc # "over"
        /\ ~player.alive => pc = "score" ]_vars

\* C2 witness: the game is over with a live enemy on the player's cell.
C2_Witness ==
    /\ pc = "over"
    /\ ~player.alive
    /\ \E i \in 1..Len(enemies) : enemies[i].alive /\ SamePlace(enemies[i], player)

\* C3 (kill accounting): at the end of every frame Game.kills is the number
\* of enemies of the list that are not alive.
C3_KillAccounting ==
    pc \in {"getch", "over"} =>
        kills = Cardinality({i \in 1..Len(enemies) : ~enemies[i].alive})

\* C3 witness: a frame with a respawn has ended; the dead are counted, the
\* new enemies are not.
C3_Witness ==
    /\ pc = "getch"
    /\ Len(enemies) = 4
    /\ kills = 2
    /\ enemies[3].alive /\ enemies[4].alive

\* the cell of an entity
Cell(e) == <<e.y, e.x>>

\* enemy i dies in the step
Died(i) == enemies[i].alive /\ ~enemies'[i].alive

\* keep_shooting stops a bullet on this cell
AtWall(b) == b.x >= COLS - 1 \/ (b.y = LINES - 1 /\ b.x >= COLS - 2)

\* C4 (wave doubling): the update appends enemies exactly when none of the
\* enemies it started with is alive after the scan; then the list has twice
\* its length, the old entries are kept (dead) and every new enemy is alive,
\* on a row 0..LINES-1 and a column 5..COLS-2. No other step changes the list.
C4_WaveDoubling ==
    [][ /\ pc = "update" =>
              LET n == Len(enemies)
                  allDead == \A i \in 1..n : ~enemies'[i].alive
              IN  /\ Len(enemies') = IF allDead THEN 2 * n ELSE n
                  /\ \A j \in (n + 1)..Len(enemies') :
                         /\ enemies'[j].alive
                         /\ enemies'[j].y \in 0..(LINES - 1)
                         /\ enemies'[j].x \in 5..(COLS - 2)
        /\ pc # "update" => enemies' = enemies ]_vars

\* C4 witness: the second respawn has just doubled the list from 2 to 4.
C4_Witness ==
    /\ pc = "score"
    /\ Len(enemies) = 4
    /\ ~enemies[1].alive /\ ~enemies[2].alive
    /\ enemies[3].alive /\ enemies[4].alive
    /\ kills = 1

C7_OnlyFiredKill ==
    [][ pc = "update" =>
          \A i \in 1..Len(enemies) :
              Died(i) => \E k \in 1..Len(shots) :
                             shots[k].fired /\ Cell(shots[k]) = Cell(enemies'[i]) ]_vars

\* C8 (fire-idle invariant): when every bullet of the pool is in flight, the
\* input step leaves the pool as it is, whatever the key, and draws no
\* launch; Player.fire takes its else branch only then.
C8_FireNoIdle ==
    [][ pc = "getch" =>
          /\ (\A k \in 1..Len(shots) : shots[k].fired) => (shots' = shots /\ ~launched')
          /\ misfire' => /\ \A k \in 1..Len(shots) : shots[k].fired
                         /\ shots' = shots
                         /\ player' = player ]_vars

\* C8 witness: Player.fire has just been called with no idle bullet.
C8_Witness ==
    /\ pc = "clear"
    /\ misfire
    /\ \A k \in 1..Len(shots) : shots[k].fired

\* C9 (stop is idempotent): for every bullet of a reachable pool, in flight
\* or idle, stop leaves it idle on the origin with its speed and its glyph,
\* and a second stop changes nothing.
C9_StopIdempotent ==
    \A k \in 1..Len(shots) :
        LET b == shots[k]
            once == stop(b)
        IN  /\ stop(once) = once
            /\ ~once.fired /\ once.x = 0 /\ once.y = 0
            /\ once.speed = b.speed /\ once.icon = b.icon

\* C9 witness: the pool holds a bullet in flight away from the origin and an
\* idle one, after a bullet has been stopped by a hit.
C9_Witness ==
    /\ Len(shots) >= 2
    /\ \E k \in 1..Len(shots) : shots[k].fired /\ Cell(shots[k]) # <<0, 0>>
    /\ \E k \in 1..Len(shots) : ~shots[k].fired

\* C10 as stated (pool growth condition): when a bullet of the pool is idle
\* and the enemies that die in the update die on the cell of a bullet in
\* flight, the pool does not grow.
C10_GrowsOnlyWhenExhausted ==
    [][ ( /\ pc = "update"
          /\ \E k \in 1..Len(shots) : ~shots[k].fired
          /\ \A i \in 1..Len(enemies) :
                 Died(i) => \E k \in 1..Len(shots) :
                                shots[k].fired /\ Cell(shots[k]) = Cell(enemies'[i]) )
        => Len(shots') = Len(shots) ]_vars

\* C10 as amended (pool growth): the pool never shrinks and its entries keep
\* their glyph and speed; an update appends one bullet for each enemy that
\* dies in it, idle bullet in the pool or not; no other step, the input step
\* with Player.fire included, changes the length of the pool.
C10_PoolGrowth ==
    [][ /\ Len(shots') >= Len(shots)
        /\ \A k \in 1..Len(shots) :
               shots'[k].icon = shots[k].icon /\ shots'[k].speed = shots[k].speed
        /\ pc = "update" =>
               Len(shots') = Len(shots)
                             + Cardinality({i \in 1..Len(enemies) : Died(i)})
        /\ pc # "update" => Len(shots') = Len(shots) ]_vars

\* C10 witness: the second enemy has been killed while the second bullet of
\* the pool was idle, and the pool has its third bullet.
C10_Witness ==
    /\ pc = "score"
    /\ Len(enemies) = 4
    /\ Len(shots) = 3
    /\ ~shots[2].fired /\ ~shots[3].fired
    /\ Cell(enemies[2]) # <<0, 0>>

\* the values of random.random(), in hundredths, on which the policy of
\* move_random is stated: the ends of [0,1) and both sides of every threshold
PolicyDraws1 == {0, 35, 36, 99}

PolicyDraws2 == {0, 25, 26, 50, 51, 70, 71, 99}

\* a column clamped to the screen for an entity on row y with a glyph of
\* length n
ClampX(x, y, n) ==
    LET hi == COLS - n - (IF y = LINES - 1 THEN 1 ELSE 0)
    IN  IF x < 0 THEN 0 ELSE IF x > hi THEN hi ELSE x

ClampY(y) == IF y < 0 THEN 0 ELSE IF y > LINES - 1 THEN LINES - 1 ELSE y

\* the live enemies of the state
Live == {i \in 1..Len(enemies) : enemies[i].alive}

\* C11 as stated (moveRandom threshold policy): for every live enemy of a
\* reachable state, move_random leaves it where it is when r1 <= 0.35, and
\* makes one move when r1 > 0.35.
C11_StillAtMost35 ==
    \A i \in Live : \A r1 \in PolicyDraws1, r2 \in PolicyDraws2 :
        r1 <= 35 => move_random(enemies[i], r1, r2) = enemies[i]

\* C11 as amended (moveRandom threshold policy): for every live enemy of a
\* reachable state, move_random leaves it as it is when r1 > 0.35; when
\* r1 <= 0.35 it makes one move of one cell, clamped on its own axis, chosen
\* by r2: left if r2 > 0.70, right if 0.5 < r2 <= 0.70, up if
\* 0.25 < r2 <= 0.5, down if r2 <= 0.25; nothing but the one coordinate
\* changes.
C11_ThresholdPolicy ==
    \A i \in Live : \A r1 \in PolicyDraws1, r2 \in PolicyDraws2 :
        LET e == enemies[i]
            n == Len(e.icon)
            m == move_random(e, r1, r2)
        IN  /\ r1 > 35 => m = e
            /\ (r1 <= 35 /\ r2 > 70) => m = [e EXCEPT !.x = ClampX(e.x - 1, e.y, n)]
            /\ (r1 <= 35 /\ 50 < r2 /\ r2 <= 70) =>
                   m = [e EXCEPT !.x = ClampX(e.x + 1, e.y, n)]
            /\ (r1 <= 35 /\ 25 < r2 /\ r2 <= 50) => m = [e EXCEPT !.y = ClampY(e.y - 1)]
            /\ (r1 <= 35 /\ r2 <= 25) => m = [e EXCEPT !.y = ClampY(e.y + 1)]

\* C11 witness: the first enemy has made the move to the left in the first
\* update, from its cell (LINES - 1, COLS \div 2).
C11_Witness ==
    /\ pc = "score"
    /\ kills = 0
    /\ Len(enemies) = 1
    /\ enemies[1].alive
    /\ Cell(enemies[1]) = <<LINES - 1, (COLS \div 2) - 1>>
    /\ Cell(player) = <<0, 0>>

\* the bullets of the pool sh that are idle
Idle(sh) == {k \in 1..Len(sh) : ~sh[k].fired}

\* the bullets that go from idle to in flight in the step
Launched == {k \in 1..Len(shots) : ~shots[k].fired /\ shots'[k].fired}

\* C12 (fire launches the first idle projectile): with an idle bullet in the
\* pool, Player.fire (the space key) puts the idle bullet of least index on
\* the player's cell and in flight and changes nothing else: not the other
\* bullets, not the length of the pool, not the player. An input step that
\* changes the pool has done exactly that, and launches one bullet; no step
\* launches two, and no step but the input step launches any.
C12_FireFirstIdle ==
    [][ /\ (pc = "getch" /\ Idle(shots) # {}) =>
              LET i == CHOOSE k \in Idle(shots) : \A l \in Idle(shots) : k <= l
                  fired == [shots EXCEPT ![i].y = player.y, ![i].x = player.x,
                                         ![i].fired = TRUE]
                  r == parse_keys(player, shots, " ")
              IN  /\ PlayerFire(player, shots) = fired
                  /\ r.shots = fired /\ r.player = player
                  /\ shots' # shots =>
                         /\ shots' = fired
                         /\ player' = player
                         /\ Launched = {i}
        /\ (pc = "getch" /\ Idle(shots) = {}) => shots' = shots
        /\ Cardinality(Launched) <= 1
        /\ pc # "getch" => Launched = {} ]_vars

\* C12 witness: with two idle bullets in the pool the player, away from the
\* origin, has fired: the first bullet is in flight on the player's cell,
\* the second is still idle.
C12_Witness ==
    /\ pc = "clear"
    /\ launched
    /\ Len(shots) = 2
    /\ Cell(player) # <<0, 0>>
    /\ shots[1].fired /\ Cell(shots[1]) = Cell(player)
    /\ ~shots[2].fired

\* the bullet has reached the right bound of its row
AtRightBound(b) ==
    IF b.y = LINES - 1 THEN b.x >= COLS - Len(b.icon) - 1 ELSE b.x >= COLS - Len(b.icon)

\* the bullet b idle on the origin
Reverted(b) == [b EXCEPT !.fired = FALSE, !.y = 0, !.x = 0]

\* C13 (projectile advance): keep_shooting reverts a bullet in flight to idle
\* on the origin when it has reached the right bound of its row, and
\* otherwise adds speed to its column and leaves its row and its flag. In an
\* update every bullet in flight is reverted (at the right bound, or for an
\* enemy that dies on its cell) or advanced so; no other step touches a
\* bullet in flight. From step to step a bullet that stays in flight keeps
\* its row and does not lose a column, and no bullet changes its speed.
C13_Advance ==
    [][ /\ \A k \in 1..Len(shots) :
               LET b == shots[k]
                   advanced == [b EXCEPT !.x = b.x + b.speed]
               IN  /\ shots'[k].speed = b.speed
                   /\ (b.fired /\ shots'[k].fired) =>
                          shots'[k].y = b.y /\ shots'[k].x >= b.x
                   /\ b.fired =>
                          /\ keep_shooting(b) = IF AtRightBound(b) THEN Reverted(b)
                                                ELSE advanced
                          /\ pc = "update" =>
                                 /\ shots'[k] \in {Reverted(b), advanced}
                                 /\ AtRightBound(b) => shots'[k] = Reverted(b)
                                 /\ (~AtRightBound(b) /\ shots'[k] = Reverted(b)) =>
                                        \E i \in 1..Len(enemies) :
                                            Died(i) /\ Cell(enemies'[i]) = Cell(b)
                          /\ pc # "update" => shots'[k] = b ]_vars

\* C13 witness: the bullet fired from the origin has advanced to the last
\* column of the top row, where the next update stops it.
C13_Witness ==
    /\ pc = "score"
    /\ Cell(player) = <<0, 0>>
    /\ shots[1].fired
    /\ Cell(shots[1]) = <<0, COLS - 1>>
    /\ AtRightBound(shots[1])

\* no frame executes any more: the game is over, or it has been followed to
\* its last roster
FramesEnded == pc = "over" \/ (pc = "getch" /\ Len(enemies) >= LiveMaxEnemies)

\* the largest pool of the game up to its last roster
MaxPool == LiveMaxEnemies

\* C14 (projectile recycling liveness): while frames keep executing, a bullet
\* in flight is idle again after finitely many steps, and so, when no bullet
\* of the pool is idle, one is idle again later. The number of frames is
\* bounded by the width: a bullet in flight is on a column 0..COLS-1, and every
\* update that leaves it in flight moves it one column to the right.
C14_Recycling ==
    /\ \A k \in 1..MaxPool :
           (Len(shots) >= k /\ shots[k].fired)
               ~> ((Len(shots) >= k /\ ~shots[k].fired) \/ FramesEnded)
    /\ (Idle(shots) = {}) ~> (Idle(shots) # {} \/ FramesEnded)
    /\ [][ \A k \in 1..Len(shots) :
               /\ shots[k].fired => shots[k].x \in 0..(COLS - 1)
               /\ (pc = "update" /\ shots[k].fired /\ shots'[k].fired) =>
                      shots'[k].x = shots[k].x + 1 ]_vars

\* C14 witness: the bullet that was in flight has struck the first enemy in
\* this update (the enemy lies dead away from the origin, not yet counted)
\* and every bullet of the pool is idle again.
C14_Witness ==
    /\ pc = "score"
    /\ kills = 0
    /\ ~enemies[1].alive
    /\ Cell(enemies[1]) # <<0, 0>>
    /\ Len(shots) = 2
    /\ Idle(shots) = {1, 2}

\* C15 (adversary death is one-way, the dead are frozen): in every step a dead
\* enemy stays as it is, dead and on its cell; every entry of the list stays
\* in its place with its glyph, so the list does not shrink; the score does
\* not decrease. In an update the dead enemies are not tested: the player
\* dies only of an enemy that was alive when the update started, a bullet in
\* flight below the right bound is stopped only by an enemy that dies in this
\* update on its cell (a dead enemy on its cell lets it pass), and the pool
\* grows by the number of enemies that die in this update.
C15_DeadStayDead ==
    [][ /\ Len(enemies') >= Len(enemies)
        /\ \A i \in 1..Len(enemies) :
               /\ enemies'[i].icon = enemies[i].icon
               /\ ~enemies[i].alive => enemies'[i] = enemies[i]
        /\ kills' >= kills
        /\ CountDead(enemies') >= CountDead(enemies)
        /\ pc = "update" =>
               /\ ~player'.alive =>
                      \E i \in 1..Len(enemies) :
                          /\ enemies[i].alive /\ enemies'[i].alive
                          /\ Cell(enemies'[i]) = Cell(player)
               /\ \A k \in 1..Len(shots) :
                      (shots[k].fired /\ ~AtRightBound(shots[k]) /\ ~shots'[k].fired) =>
                          \E i \in 1..Len(enemies) :
                              Died(i) /\ Cell(enemies'[i]) = Cell(shots[k])
               /\ Len(shots') = Len(shots)
                                + Cardinality({i \in 1..Len(enemies) : Died(i)}) ]_vars

\* C15 witness: an update starts with the player standing on the cell of the
\* first enemy, dead and counted, and with a bullet in flight on that cell.
C15_Witness ==
    /\ pc = "update"
    /\ player.alive
    /\ Len(enemies) = 2
    /\ kills = 1
    /\ ~enemies[1].alive
    /\ Cell(player) = Cell(enemies[1])
    /\ \E k \in 1..Len(shots) :
           /\ shots[k].fired /\ ~AtRightBound(shots[k])
           /\ Cell(shots[k]) = Cell(enemies[1])

\* C16 (frame step order): the surface is cleared before the input is
\* dispatched, so that what the dispatch draws (the render of Bullet.fire at
\* the launch) is still on the surface when the frame is flushed: once drawn,
\* the launch stays drawn until the step that flushes (screen.refresh, in the
\* step from "score"); and the steps after the dispatch follow in the order
\* update, score with flush and loop test.
C16_LaunchRenderKept ==
    [][ /\ launched => (launched' \/ pc = "score")
        /\ pc = "update" => pc' = "score"
        /\ pc = "score" => pc' \in {"getch", "over"} ]_vars

\* C17 (idle projectiles rest at origin): in every state every idle bullet of
\* the pool is on (0,0): the bullet the player starts with, the bullets
\* appended, the bullets stopped at the right bound or by a hit. A bullet
\* goes from idle to in flight only in the input step, by Player.fire, and
\* is then on the player's cell.
C17_IdleAtOrigin ==
    [][ /\ \A k \in 1..Len(shots) : ~shots[k].fired => Cell(shots[k]) = <<0, 0>>
        /\ \A k \in 1..Len(shots') : ~shots'[k].fired => Cell(shots'[k]) = <<0, 0>>
        /\ \A k \in 1..Len(shots) :
               (~shots[k].fired /\ shots'[k].fired) =>
                   /\ pc = "getch"
                   /\ launched'
                   /\ Cell(shots'[k]) = Cell(player') ]_vars

\* C17 witness: the second enemy has been hit in this update away from the
\* origin by a bullet in flight; the pool has three bullets, all idle on the
\* origin.
C17_Witness ==
    /\ pc = "score"
    /\ kills = 1
    /\ Len(enemies) = 4
    /\ Cell(enemies[2]) # <<0, 0>>
    /\ Len(shots) = 3
    /\ \A k \in 1..3 : ~shots[k].fired /\ Cell(shots[k]) = <<0, 0>>

\* C18 (pool size tracks kills): the pool holds one bullet and one more for
\* each dead enemy of the list, in every state; at the end of a frame that
\* is one more than the score.
C18_PoolTracksKills ==
    /\ Len(shots) = 1 + Cardinality({i \in 1..Len(enemies) : ~enemies[i].alive})
    /\ pc \in {"getch", "over"} => Len(shots) = 1 + kills

\* C18 witness: a frame has ended with two enemies dead and three bullets in
\* the pool.
C18_Witness ==
    /\ pc = "getch"
    /\ kills = 2
    /\ Len(enemies) = 4
    /\ Len(shots) = 3

\* n is 2^k for some k >= 0
RECURSIVE IsPowerOfTwo(_)
IsPowerOfTwo(n) == n = 1 \/ (n > 1 /\ n % 2 = 0 /\ IsPowerOfTwo(n \div 2))

\* C19 (roster size is a power of two): the list of enemies has 2^k entries,
\* k >= 0, in every state. Its length changes only in an update, by the
\* respawn: that happens exactly when every enemy the update started with is
\* dead after the scan, the length doubles, and right after it the dead are
\* as many as the list was long before, the first half of the list, and the
\* second half is alive.
C19_RosterPowerOfTwo ==
    [][ /\ IsPowerOfTwo(Len(enemies))
        /\ IsPowerOfTwo(Len(enemies'))
        /\ pc # "update" => Len(enemies') = Len(enemies)
        /\ pc = "update" =>
               LET n == Len(enemies)
                   allDead == \A i \in 1..n : ~enemies'[i].alive
               IN  /\ ~allDead => Len(enemies') = n
                   /\ allDead =>
                          /\ Len(enemies') = 2 * n
                          /\ CountDead(enemies') = n
                          /\ NumAlive(enemies') = n
                          /\ \A j \in (n + 1)..(2 * n) : enemies'[j].alive ]_vars

\* C19 witness: the first respawn has just fired; the list has two entries,
\* the first dead and not yet counted, the second alive.
C19_Witness ==
    /\ pc = "score"
    /\ kills = 0
    /\ Len(enemies) = 2
    /\ ~enemies[1].alive
    /\ enemies[2].alive

====
